---- MODULE Spec2Model ----
(***************************************************************************)
(* LLMService (backend/apps/llm/services.py): the provider-dispatch        *)
(* controller review_code and the diff extraction engine                   *)
(* _get_code_context_from_repo, modelled as one sequential process whose   *)
(* position is pc.  Collaborators (adapters, hosted clients, git commands, *)
(* the result parser) answer nondeterministically.  Spec is one request:    *)
(* construction, then review_code calls.  SpecRequests is several requests *)
(* of one process, each with its own controller, sharing os.environ.       *)
(*                                                                         *)
(* Python str values are modelled as texts: sequences of runs [c, n],      *)
(* a run being n consecutive characters of the content named c.  Chinese   *)
(* literals of the source are named by an ASCII tag and keep their length. *)
(***************************************************************************)
EXTENDS Integers, Sequences, FiniteSets, TLC

VARIABLES
    store,           \* the LLMConfig table as LLMConfig.objects.filter(is_active=True).first() sees it
    env,             \* os.environ: the process environment, one for all the requests of the process
    provider,        \* self.provider (configuration snapshot)
    config,          \* self.api_key, self.api_base, self.model, self.is_mock (configuration snapshot)
    requests,        \* the controllers of the requests the process serves concurrently
    pc,              \* position of the controller inside review_code
    args,            \* arguments of the latest review_code call
    frame,           \* the locals of the methods in progress, fresh once the call returns
    last,            \* the latest collaborator call: what was asked, what came back
    trace,           \* collaborator calls made by the latest review_code call, in order
    outcome,         \* what the latest review_code call handed to its caller
    extracted        \* the latest extraction a strategy won: the output, the text returned,
                     \* and whether the one before was won by the same output

vars == <<store, env, provider, config, requests, pc, args, frame, last, trace, outcome, extracted>>

-----------------------------------------------------------------------------
(* Texts *)

Run(c, n) == [c |-> c, n |-> n]

\* a literal of n characters; the empty literal is the empty text
Lit(c, n) == IF n = 0 THEN <<>> ELSE <<Run(c, n)>>

\* Python None where a str is expected: no text has a run of no characters
None == <<Run("None", 0)>>

\* bool(v) for v a str or None
Truthy(v) == v # None /\ v # <<>>

RECURSIVE TextLen(_)
TextLen(t) == IF t = <<>> THEN 0 ELSE Head(t).n + TextLen(Tail(t))

\* a + b for two texts: runs of the same content that meet become one run
Concat(a, b) ==
    IF a = <<>> THEN b
    ELSE IF b = <<>> THEN a
    ELSE IF a[Len(a)].c = Head(b).c
         THEN SubSeq(a, 1, Len(a) - 1)
              \o <<Run(Head(b).c, a[Len(a)].n + Head(b).n)>> \o Tail(b)
         ELSE a \o b

\* a + b, each operand evaluated once
TextCat(a, b) == CHOOSE t \in {Concat(x, y) : x \in {a}, y \in {b}} : TRUE

\* t[:k]
RECURSIVE TextTake(_, _)
TextTake(t, k) ==
    IF t = <<>> \/ k <= 0 THEN <<>>
    ELSE IF Head(t).n <= k
         THEN TextCat(<<Head(t)>>, TextTake(Tail(t), k - Head(t).n))
         ELSE <<Run(Head(t).c, k)>>

\* t[k:]
RECURSIVE TextDrop(_, _)
TextDrop(t, k) ==
    IF t = <<>> \/ k <= 0 THEN t
    ELSE IF Head(t).n <= k THEN TextDrop(Tail(t), k - Head(t).n)
         ELSE <<Run(Head(t).c, Head(t).n - k)>> \o Tail(t)

Whitespace == {"\\n", " "}

\* t.strip()
RECURSIVE Strip(_)
Strip(t) ==
    IF t = <<>> THEN <<>>
    ELSE IF Head(t).c \in Whitespace THEN Strip(Tail(t))
    ELSE IF t[Len(t)].c \in Whitespace THEN Strip(SubSeq(t, 1, Len(t) - 1))
    ELSE t

-----------------------------------------------------------------------------
(* Bounds and program constants *)

\* the length limit of a returned diff: if len(diff_content) > 20000
MaxContentLen == 20000

\* how far above the limit the modelled command outputs go
MaxExcess == 1

\* the marker appended to a cut diff: "\n\n...(<content too long, truncated>)"
TruncationMarker == <<Run("\\n", 2), Run(".", 3), Run("(content too long, truncated)", 9)>>

-----------------------------------------------------------------------------
(* Configuration: provider identifiers *)

\* the provider identifiers an active LLMConfig record may carry
ProviderIds == {"claude", "Claude", "ollama", "OLLAMA", "openai", "deepseek", "gemini", "mock"}

\* str.lower() on the provider identifiers
Lower(p) ==
    CASE p = "Claude" -> "claude"
      [] p = "OLLAMA" -> "ollama"
      [] OTHER -> p

\* the provider identifier as it appears inside an f-string
ProviderText(p) ==
    CASE p \in {"claude", "Claude", "ollama", "OLLAMA", "openai", "gemini"} -> Lit(p, 6)
      [] p = "deepseek" -> Lit(p, 8)
      [] p = "mock" -> Lit(p, 4)

-----------------------------------------------------------------------------
(* Configuration: the LLMConfig table, the snapshot and the process environment *)

\* what `from .models import LLMConfig` and the query for the active record give
StoreRecord(kind, p, key, base, model) ==
    [kind |-> kind, provider |-> p, api_key |-> key, api_base |-> base, model |-> model]

\* the import of the model class fails
Unimportable == StoreRecord("ImportError", "", None, None, None)

\* .first() gives None: no record has is_active=True
NoActiveRecord == StoreRecord("None", "", None, None, None)

\* a record whose three text fields are filled
FullRecord(p) ==
    StoreRecord("record", p, Lit("sk-one", 6), Lit("https://one", 11), Lit("model-one", 9))

\* a record with an empty credential, no base URL and an empty model name
BareRecord(p) == StoreRecord("record", p, <<>>, None, <<>>)

\* the active records of the model
ActiveRecords ==
    {FullRecord(p) : p \in ProviderIds} \cup {BareRecord(p) : p \in {"claude", "ollama", "deepseek"}}

StoreStates == {Unimportable, NoActiveRecord} \cup ActiveRecords

\* ImproperlyConfigured("<the LLMConfig model cannot be imported ...>")
ImportConfigError == Lit("the LLMConfig model cannot be imported", 36)

\* ImproperlyConfigured("<no valid LLM configuration found ...>")
NoConfigError == Lit("no valid LLM configuration found", 39)

\* the snapshot fields before _load_config assigns them
NoProvider == "unset"

NoConfig == [api_key |-> None, api_base |-> None, model |-> None, is_mock |-> FALSE]

\* self.api_key, self.api_base, self.model, self.is_mock as _load_config assigns them
LoadedConfig(rec) ==
    [api_key |-> rec.api_key, api_base |-> rec.api_base, model |-> rec.model,
     is_mock |-> (rec.provider = "mock")]

\* the keys of os.environ that _set_environment_variables assigns
EnvNames ==
    {"OPENAI_API_KEY", "OPENAI_API_BASE", "DEEPSEEK_API_KEY", "DEEPSEEK_API_BASE",
     "ANTHROPIC_API_KEY", "GOOGLE_API_KEY", "OLLAMA_API_BASE", "LLM_MODEL"}

\* the environment the process starts with: none of these keys is set
StartEnv == [name \in EnvNames |-> None]

NoVariable == "-"

\* the key that receives self.api_key, by provider family
CredentialVariable(p) ==
    CASE Lower(p) = "openai" -> "OPENAI_API_KEY"
      [] Lower(p) = "deepseek" -> "DEEPSEEK_API_KEY"
      [] Lower(p) = "claude" -> "ANTHROPIC_API_KEY"
      [] Lower(p) = "gemini" -> "GOOGLE_API_KEY"
      [] OTHER -> NoVariable

\* the key that receives self.api_base, by provider family
BaseUrlVariable(p) ==
    CASE Lower(p) = "openai" -> "OPENAI_API_BASE"
      [] Lower(p) = "deepseek" -> "DEEPSEEK_API_BASE"
      [] Lower(p) = "ollama" -> "OLLAMA_API_BASE"
      [] OTHER -> NoVariable

\* the assignment with its `if value:` guard left out
SetIfPresent_Always(e, name, value) ==
    IF name # NoVariable THEN [e EXCEPT ![name] = value] ELSE e

\* os.environ[name] = value, under `if value:` and only where the family has the key
SetIfPresent(e, name, value) ==
    IF name # NoVariable /\ Truthy(value) THEN [e EXCEPT ![name] = value] ELSE e

\* os.environ after _set_environment_variables.  The values are database text,
\* which os.environ accepts, so no assignment raises.
SetEnvironmentVariables(e, p, cfg) ==
    IF cfg.is_mock
    THEN e
    ELSE LET withKey  == SetIfPresent(e, CredentialVariable(p), cfg.api_key)
             withBase == SetIfPresent(withKey, BaseUrlVariable(p), cfg.api_base)
         IN  SetIfPresent(withBase, "LLM_MODEL", cfg.model)

-----------------------------------------------------------------------------
(* The error messages review_code returns *)

\* f"<review failed: no repository path given,>{provider}< needs a local repository>"
NoRepoPathMessage(p) ==
    TextCat(TextCat(Lit("review failed: no repository path given, ", 15), ProviderText(p)),
            Lit(" needs a local repository", 7))

\* f"<review failed:>{validation_error}" (full-width colon, no blank)
ValidationMessage(validation_error) ==
    TextCat(Lit("review failed(full-width colon)", 7), validation_error)

\* f"<review failed>: {error}" and f"<review failed>: {str(e)}"
FailureMessage(error) == TextCat(Lit("review failed: ", 8), error)

\* f"<review failed: a required module is missing>\n<error detail>: {str(e)}"
ImportMessage(error) ==
    TextCat(Lit("review failed: a required module is missing; error detail: ", 21), error)

\* "<review failed: no change content obtained>"
NoContextMessage == Lit("review failed: no change content obtained", 17)

\* f"<review failed: provider >{provider}< does not support API calls yet>"
UnsupportedMessage(p) ==
    TextCat(TextCat(Lit("review failed: provider ", 11), ProviderText(p)),
            Lit(" does not support API calls yet", 12))

\* f"<review failed: LLM API call failed> - {str(e)}"
ApiFailureMessage(error) == TextCat(Lit("review failed: LLM API call failed - ", 22), error)

-----------------------------------------------------------------------------
(* Review subjects and the prompt builders *)

NoMrInfo == [none |-> TRUE]

MrInfos ==
    { NoMrInfo,
      [title |-> Lit("Fix login", 9), author |-> Lit("dev", 3),
       source_branch |-> Lit("feature", 7), target_branch |-> Lit("main", 4)] }

\* bool(mr_info)
MrTruthy(m) == m # NoMrInfo /\ DOMAIN m # {}

\* mr_info.get(key, '<unknown>')
MrGet(m, key) == IF key \in DOMAIN m THEN m[key] ELSE Lit("unknown", 2)

\* the lines of prompt_parts that carry the subject, common to both templates
MrInfoLines(m) ==
    LET head == TextCat(Lit("template: review this merge request, title: ", 47), MrGet(m, "title"))
        auth == TextCat(TextCat(head, Lit("template: author: ", 7)), MrGet(m, "author"))
        srcb == TextCat(TextCat(auth, Lit("template: source branch: ", 8)), MrGet(m, "source_branch"))
        tgtb == TextCat(TextCat(srcb, Lit("template: target branch: ", 9)), MrGet(m, "target_branch"))
    IN  IF "description" \in DOMAIN m /\ Truthy(m["description"])
        THEN TextCat(TextCat(tgtb, Lit("template: description: ", 7)), m["description"])
        ELSE tgtb

\* _build_claude_cli_prompt(mr_info)
BuildClaudeCliPrompt(m) ==
    TextCat(MrInfoLines(m), Lit("template: review dimensions and report format, tool Claude AI", 2623))

\* _build_generic_llm_prompt(mr_info, code_context)
BuildGenericLlmPrompt(m, ctx) ==
    LET body == TextCat(MrInfoLines(m), Lit("template: review dimensions and report format, tool ", 2373))
        tool == TextCat(TextCat(body, ProviderText(provider)), Lit("template: notes, diff fence opens", 265))
    IN  TextCat(TextCat(tool, ctx), Lit("template: diff fence closes", 4))

\* self.prompt_template, the default GPT_MESSAGE
PromptTemplate == Lit("default review instructions", 80)

\* _build_prompt(code_context)
BuildPrompt(ctx) ==
    TextCat(TextCat(PromptTemplate, Lit("heading: code change content", 14)), ctx)

CustomPrompts == {None, Lit("caller prompt", 13)}

-----------------------------------------------------------------------------
(* Exceptions and the answers of the collaborators *)

NoExc == [type |-> "none", text |-> <<>>]

\* an exception instance; str(e) is its text
Exception(type, text) == [type |-> type, text |-> text]

\* the classes the except clauses name, with the subclasses that reach them
Subclasses(class) ==
    CASE class = "ImportError" -> {"ImportError"}
      [] class = "Exception" -> {"Exception", "ImportError", "KeyError", "TypeError",
                                 "TimeoutExpired"}

\* isinstance(e, class)
IsInstance(e, class) == e.type \in Subclasses(class)

ImportFailure == Exception("ImportError", Lit("No module named apps.review", 27))

CollaboratorFailure == Exception("Exception", Lit("collaborator failed", 19))

\* validate_cli_installation() / validate_ollama_connection(): (is_valid, validation_error)
ValidateAnswers ==
    { [raised |-> NoExc, is_valid |-> TRUE, validation_error |-> None],
      [raised |-> NoExc, is_valid |-> FALSE, validation_error |-> Lit("backing tool not usable", 23)],
      [raised |-> CollaboratorFailure, is_valid |-> FALSE, validation_error |-> None] }

\* the payload an adapter hands back on success
ResultData == [result |-> Lit("raw review text", 15), duration_ms |-> 1200]

\* cli_service.review_code(...) / ollama_service.review_code(...): (success, result_data, error)
ExecuteAnswers ==
    { [raised |-> NoExc, success |-> TRUE, result_data |-> ResultData, error |-> None],
      [raised |-> NoExc, success |-> FALSE, result_data |-> [none |-> TRUE],
       error |-> Lit("review timed out", 16)],
      [raised |-> CollaboratorFailure, success |-> FALSE, result_data |-> [none |-> TRUE],
       error |-> None] }

\* the hosted clients: the response text, or an exception
HostedAnswers ==
    { [raised |-> NoExc, text |-> Lit("hosted review text", 18)],
      [raised |-> CollaboratorFailure, text |-> None] }

\* what ReviewResultParser.parse may hand back: a full structured result, a dict that
\* lacks 'issues' or 'score', or an exception
ParseAnswers ==
    { [raised |-> NoExc, value |-> [score |-> 85, issues |-> <<>>]],
      [raised |-> NoExc, value |-> [score |-> 40, issues |-> <<"issue">>]],
      [raised |-> NoExc, value |-> [score |-> 40]],
      [raised |-> NoExc, value |-> [issues |-> <<"issue">>]],
      [raised |-> CollaboratorFailure, value |-> [none |-> TRUE]] }

\* a structured result: it carries a score and the list of issues
IsStructured(r) == {"score", "issues"} \subseteq DOMAIN r

\* int(elapsed_time * 1000) as the clock may have it
Durations == {0, 1200}

-----------------------------------------------------------------------------
(* Observation of the collaborators *)

Event(op, res) == [op |-> op, res |-> res, k |-> 0]

ProbeEvent(k, res) == [op |-> "probe", res |-> res, k |-> k]

Call(op, arg, ret) == [op |-> op, arg |-> arg, ret |-> ret]

NoCall == Call("none", <<>>, <<>>)

\* "ok", "not_ok" or "raised": how an adapter answered
AnswerKind(a, okField) ==
    IF a.raised # NoExc THEN "raised" ELSE IF a[okField] THEN "ok" ELSE "not_ok"

Ops(tr) == {tr[i].op : i \in 1..Len(tr)}

-----------------------------------------------------------------------------
(* Construction, and the frame of one review_code call *)

NoArgs == [mr_info |-> NoMrInfo, repo_path |-> None, commit_range |-> None,
           custom_prompt |-> None]

NoValidation == [raised |-> NoExc, is_valid |-> FALSE, validation_error |-> None]

NoExecution == [raised |-> NoExc, success |-> FALSE, result_data |-> [none |-> TRUE],
                error |-> None]

NoOutcome == [kind |-> "none", value |-> <<>>]

NoExtraction == [output |-> None, result |-> None, again |-> FALSE]

\* the locals before any of them is assigned
FreshFrame ==
    [ validation     |-> NoValidation,   \* (is_valid, validation_error)
      final_prompt   |-> None,
      execution      |-> NoExecution,    \* (success, result_data, error)
      review_content |-> None,
      exc            |-> NoExc,          \* the exception in flight
      commit_range   |-> None,           \* local of _get_code_context_from_repo
      current_branch |-> <<>>,           \* local of _get_code_context_from_repo
      strategy       |-> 0,              \* index of the next entry of alternative_methods
      code_context   |-> None ]          \* what _get_code_context_from_repo returned

NoRequests == <<>>

\* before LLMService(request_id) is called
Init ==
    /\ store \in StoreStates
    /\ env = StartEnv
    /\ provider = NoProvider
    /\ config = NoConfig
    /\ requests = NoRequests
    /\ pc = "Unconstructed"
    /\ args = NoArgs
    /\ frame = FreshFrame
    /\ last = NoCall
    /\ trace = <<>>
    /\ outcome = NoOutcome
    /\ extracted = NoExtraction

\* construction that falls back to a mock configuration when no record is active
Construct_FallsBack ==
    /\ pc = "Unconstructed"
    /\ LET rec == IF store.kind # "record" THEN FullRecord("mock") ELSE store
       IN  /\ provider' = rec.provider
           /\ config' = LoadedConfig(rec)
           /\ env' = IF LoadedConfig(rec).is_mock
                     THEN env
                     ELSE SetEnvironmentVariables(env, rec.provider, LoadedConfig(rec))
           /\ pc' = "Configured"
           /\ outcome' = NoOutcome
    /\ UNCHANGED <<store, requests, args, frame, last, trace, extracted>>

\* LLMService(request_id): __init__, _load_config and _set_environment_variables
Construct ==
    /\ pc = "Unconstructed"
    /\ IF store.kind # "record"
       THEN /\ pc' = "ConstructionFailed"
            /\ outcome' = [kind |-> "Raised",
                           value |-> IF store.kind = "ImportError"
                                     THEN ImportConfigError ELSE NoConfigError]
            /\ UNCHANGED <<env, provider, config>>
       ELSE /\ provider' = store.provider
            /\ config' = LoadedConfig(store)
            /\ env' = IF LoadedConfig(store).is_mock
                      THEN env
                      ELSE SetEnvironmentVariables(env, store.provider, LoadedConfig(store))
            /\ pc' = "Configured"
            /\ outcome' = NoOutcome
    /\ UNCHANGED <<store, requests, args, frame, last, trace, extracted>>

\* review_code hands a value to its caller and its frame is gone
Return(kind, value) ==
    /\ pc' = "Configured"
    /\ outcome' = [kind |-> kind, value |-> value]
    /\ frame' = FreshFrame

\* an exception leaves the method in progress and reaches the handler at `handler`
Raise(e, handler) ==
    /\ pc' = handler
    /\ frame' = [frame EXCEPT !.exc = e]
    /\ outcome' = outcome

-----------------------------------------------------------------------------
(* review_code: precondition and adapter selection *)

RepoPaths == {None, Lit("/missing", 8), Lit("/repo", 5)}

\* os.path.exists(path) for the paths of the model
PathExists(path) == path = Lit("/repo", 5)

CommitRanges == {None, Lit("abc..def", 8)}

\* the providers the repository-path precondition names
NeedsLocalRepo(p) == p \in {"claude", "ollama"}

\* the dispatch comparing the identifier as configured, not lower-cased
SelectAdapter_CaseSensitive(p) ==
    CASE p = "claude" -> "claude_validate"
      [] p = "ollama" -> "ollama_validate"
      [] OTHER -> "extract"

\* the method review_code hands the review to
SelectAdapter(p) ==
    CASE Lower(p) = "claude" -> "claude_validate"
      [] Lower(p) = "ollama" -> "ollama_validate"
      [] OTHER -> "extract"

\* review_code that keeps the lower-cased identifier it dispatches on
ReviewCode_NormalisesProvider ==
    /\ pc = "Configured"
    /\ \E mr \in MrInfos, rp \in RepoPaths, cr \in CommitRanges, cp \in CustomPrompts :
         /\ args' = [mr_info |-> mr, repo_path |-> rp, commit_range |-> cr,
                     custom_prompt |-> cp]
         /\ trace' = <<>>
         /\ last' = NoCall
         /\ IF ~Truthy(rp) /\ NeedsLocalRepo(provider)
            THEN Return("ErrorMessage", NoRepoPathMessage(provider))
            ELSE /\ pc' = SelectAdapter(provider)
                 /\ frame' = FreshFrame
                 /\ outcome' = NoOutcome
    /\ provider' = Lower(provider)
    /\ UNCHANGED <<store, env, config, requests, extracted>>

\* a caller invokes review_code(code_context, mr_info, repo_path, commit_range, custom_prompt)
ReviewCode ==
    /\ pc = "Configured"
    /\ \E mr \in MrInfos, rp \in RepoPaths, cr \in CommitRanges, cp \in CustomPrompts :
         /\ args' = [mr_info |-> mr, repo_path |-> rp, commit_range |-> cr,
                     custom_prompt |-> cp]
         /\ trace' = <<>>
         /\ last' = NoCall
         /\ IF ~Truthy(rp) /\ NeedsLocalRepo(provider)
            THEN Return("ErrorMessage", NoRepoPathMessage(provider))
            ELSE /\ pc' = SelectAdapter(provider)
                 /\ frame' = FreshFrame
                 /\ outcome' = NoOutcome
    /\ UNCHANGED <<store, env, provider, config, requests, extracted>>

\* review_code with `except ImportError` as its only clause
ReviewCodeExcept_OnlyImportError ==
    /\ pc = "except"
    /\ IF IsInstance(frame.exc, "ImportError")
       THEN Return("ErrorMessage", ImportMessage(frame.exc.text))
       ELSE Return("Raised", frame.exc.text)
    /\ UNCHANGED <<store, env, provider, config, requests, args, last, trace, extracted>>

\* review_code whose handlers log the exception and raise it again
ReviewCodeExcept_Reraises ==
    /\ pc = "except"
    /\ Return("Raised", frame.exc.text)
    /\ UNCHANGED <<store, env, provider, config, requests, args, last, trace, extracted>>

\* the except clauses of review_code
ReviewCodeExcept ==
    /\ pc = "except"
    /\ IF IsInstance(frame.exc, "ImportError")
       THEN Return("ErrorMessage", ImportMessage(frame.exc.text))
       ELSE IF IsInstance(frame.exc, "Exception")
            THEN Return("ErrorMessage", FailureMessage(frame.exc.text))
            ELSE Return("Raised", frame.exc.text)
    /\ UNCHANGED <<store, env, provider, config, requests, args, last, trace, extracted>>

-----------------------------------------------------------------------------
(* _review_with_claude_cli and _review_with_ollama *)

\* the validate step with the test of is_valid left out
AdapterValidate_IgnoresVerdict(here, next) ==
    /\ pc = here
    /\ \/ /\ Raise(ImportFailure, "except")
          /\ UNCHANGED <<last, trace>>
       \/ \E a \in ValidateAnswers :
            /\ trace' = Append(trace, Event("validate", AnswerKind(a, "is_valid")))
            /\ last' = Call("validate", <<>>, a)
            /\ IF a.raised # NoExc
               THEN Raise(a.raised, "except")
               ELSE /\ pc' = next
                    /\ frame' = [frame EXCEPT !.validation = a]
                    /\ outcome' = outcome
    /\ UNCHANGED <<store, env, provider, config, requests, args, extracted>>

\* imports, the service object and its validate step
AdapterValidate(here, next) ==
    /\ pc = here
    /\ \/ /\ Raise(ImportFailure, "except")
          /\ UNCHANGED <<last, trace>>
       \/ \E a \in ValidateAnswers :
            /\ trace' = Append(trace, Event("validate", AnswerKind(a, "is_valid")))
            /\ last' = Call("validate", <<>>, a)
            /\ IF a.raised # NoExc
               THEN Raise(a.raised, "except")
               ELSE IF ~a.is_valid
                    THEN Return("ErrorMessage", ValidationMessage(a.validation_error))
                    ELSE /\ pc' = next
                         /\ frame' = [frame EXCEPT !.validation = a]
                         /\ outcome' = outcome
    /\ UNCHANGED <<store, env, provider, config, requests, args, extracted>>

\* final_prompt: the caller's text, else the subject template, else nothing
AdapterPrompt(here, next) ==
    /\ pc = here
    /\ IF Truthy(args.custom_prompt)
       THEN /\ frame' = [frame EXCEPT !.final_prompt = args.custom_prompt]
            /\ trace' = trace
       ELSE IF MrTruthy(args.mr_info)
            THEN /\ frame' = [frame EXCEPT !.final_prompt = BuildClaudeCliPrompt(args.mr_info)]
                 /\ trace' = Append(trace, Event("_build_claude_cli_prompt", "ok"))
            ELSE /\ frame' = [frame EXCEPT !.final_prompt = None]
                 /\ trace' = trace
    /\ pc' = next
    /\ UNCHANGED <<store, env, provider, config, requests, args, last, outcome, extracted>>

\* the adapter's execute step and the test of its success flag
AdapterExecute(here, next) ==
    /\ pc = here
    /\ \E a \in ExecuteAnswers :
         /\ trace' = Append(trace, Event("execute", AnswerKind(a, "success")))
         /\ last' = Call("execute",
                         [repo_path |-> args.repo_path, custom_prompt |-> frame.final_prompt,
                          commit_range |-> args.commit_range], a)
         /\ IF a.raised # NoExc
            THEN Raise(a.raised, "except")
            ELSE IF ~a.success
                 THEN Return("ErrorMessage", FailureMessage(a.error))
                 ELSE /\ pc' = next
                      /\ frame' = [frame EXCEPT !.execution = a]
                      /\ outcome' = outcome
    /\ UNCHANGED <<store, env, provider, config, requests, args, extracted>>

\* parser.parse(result_data), the two log lines that read the result, and the return
AdapterParse(here) ==
    /\ pc = here
    /\ \E a \in ParseAnswers :
         /\ trace' = Append(trace, Event("parse", IF a.raised # NoExc THEN "raised" ELSE "ok"))
         /\ last' = Call("parse", frame.execution.result_data, a)
         /\ IF a.raised # NoExc
            THEN Raise(a.raised, "except")
            ELSE IF "score" \notin DOMAIN a.value
                 THEN Raise(Exception("KeyError", Lit("'score'", 7)), "except")
                 ELSE IF "issues" \notin DOMAIN a.value
                      THEN Raise(Exception("KeyError", Lit("'issues'", 8)), "except")
                      ELSE Return("ParserResult", a.value)
    /\ UNCHANGED <<store, env, provider, config, requests, args, extracted>>

ClaudeValidate == AdapterValidate("claude_validate", "claude_prompt")

ClaudePrompt == AdapterPrompt("claude_prompt", "claude_execute")

ClaudeExecute == AdapterExecute("claude_execute", "claude_parse")

ClaudeParse == AdapterParse("claude_parse")

OllamaValidate == AdapterValidate("ollama_validate", "ollama_prompt")

OllamaPrompt == AdapterPrompt("ollama_prompt", "ollama_execute")

OllamaExecute == AdapterExecute("ollama_execute", "ollama_parse")

OllamaParse == AdapterParse("ollama_parse")

-----------------------------------------------------------------------------
(* _get_code_context_from_repo: the diff extraction engine *)

\* subprocess.run(...) for git: it raises (timeout, no executable), or completes with
\* an exit status and what the command wrote to stdout
Completed(returncode, stdout) == [raised |-> NoExc, returncode |-> returncode, stdout |-> stdout]

Failed(e) == [raised |-> e, returncode |-> -1, stdout |-> <<>>]

TimedOut == Exception("TimeoutExpired", Lit("git timed out", 13))

\* git rev-parse --abbrev-ref HEAD
RevParseAnswers ==
    { Failed(TimedOut),
      Completed(128, <<>>),
      Completed(0, <<Run("feature", 7), Run("\\n", 1)>>) }

\* git remote show origin
RemoteShowAnswers ==
    { Failed(TimedOut),
      Completed(128, <<>>),
      Completed(0, <<Run("* remote origin", 15), Run("\\n", 1), Run("HEAD branch: ", 13),
                     Run("main", 4), Run("\\n", 1)>>),
      Completed(0, <<Run("* remote origin", 15), Run("\\n", 1), Run("HEAD branch: ", 13),
                     Run("(unknown)", 9), Run("\\n", 1)>>) }

\* the runs that are made of word characters only
WordRuns == {"main", "feature"}

\* re.search(r"HEAD branch: (\w+)", text): group 1 of the first match, None without one
SearchHeadBranch(text) ==
    LET hits == {i \in 1..(Len(text) - 1) :
                    text[i].c = "HEAD branch: " /\ text[i + 1].c \in WordRuns}
    IN  IF hits = {} THEN None
        ELSE <<text[(CHOOSE i \in hits : \A j \in hits : i <= j) + 1]>>

\* a diff of n characters: its last character differs from the ones before it
DiffText(n) ==
    IF n = 0 THEN <<>>
    ELSE IF n = 1 THEN <<Run("z", 1)>>
    ELSE <<Run("a", n - 1), Run("z", 1)>>

\* the lengths of the modelled diffs: none, tiny, at the limit, just above it, far above it
DiffLens ==
    {0, 1, MaxContentLen, 2 * MaxContentLen}
    \cup ((MaxContentLen + 1)..(MaxContentLen + MaxExcess))

\* one diff or log command of alternative_methods
ProbeAnswers ==
    {Failed(TimedOut), Completed(128, <<>>), Completed(1, DiffText(1))}
    \cup {Completed(0, DiffText(n)) : n \in DiffLens}

\* git log -1 --pretty=%B
LogAnswers ==
    { Failed(TimedOut),
      Completed(128, <<>>),
      Completed(0, <<Run("Fix login", 9), Run("\\n", 2)>>),
      Completed(0, <<Run("long commit message", MaxContentLen), Run("\\n", 2)>>) }

Word(w, n) == Lit(w, n)

\* alternative_methods: the command line of each strategy, in order
AlternativeMethods(range, branch) ==
    << IF Truthy(range) THEN <<Word("git", 3), Word("diff", 4), range>>
                        ELSE <<Word("git", 3), Word("diff", 4)>>,
       <<Word("git", 3), Word("log", 3), Word("-p", 2), Word("-5", 2)>>,
       <<Word("git", 3), Word("diff", 4), Word("HEAD", 4)>>,
       IF Truthy(branch) THEN <<Word("git", 3), Word("diff", 4), TextCat(Word("origin/", 7), branch)>>
                         ELSE <<Word("git", 3), Word("diff", 4)>>,
       <<Word("git", 3), Word("diff", 4), Word("HEAD~1", 6), Word("HEAD", 4)>> >>

\* the limit with >= where the source has >
LimitContent_AtLimit(diff_content) ==
    IF TextLen(diff_content) >= MaxContentLen
    THEN TextCat(TextTake(diff_content, MaxContentLen), TruncationMarker)
    ELSE diff_content

\* the marker appended with the slice left out
LimitContent_NoSlice(diff_content) ==
    IF TextLen(diff_content) > MaxContentLen
    THEN TextCat(diff_content, TruncationMarker)
    ELSE diff_content

\* the length limit on a strategy's output
LimitContent(diff_content) ==
    IF TextLen(diff_content) > MaxContentLen
    THEN TextCat(TextTake(diff_content, MaxContentLen), TruncationMarker)
    ELSE diff_content

\* basic_info: the repository status summary
BasicInfo(branch_info, commit_info) ==
    TextCat(TextCat(TextCat(TextCat(Lit("# repository info, current branch: ", 16), branch_info),
                            Lit("latest commit: ", 9)), commit_info),
            Lit("note: no change details, check the repository state", 26))

\* _get_code_context_from_repo returns value to _review_with_generic_llm
ExtractReturn(value) ==
    /\ pc' = "generic_context"
    /\ frame' = [frame EXCEPT !.code_context = value, !.commit_range = None,
                              !.current_branch = <<>>, !.strategy = 0]

\* the method with the existence test left out
ExtractPathCheck_NoTest ==
    /\ pc = "extract"
    /\ frame' = [frame EXCEPT !.commit_range = args.commit_range]
    /\ pc' = IF Truthy(args.commit_range) THEN "branch" ELSE "infer"
    /\ UNCHANGED <<store, env, provider, config, requests, args, last, trace, outcome, extracted>>

\* the existence test of the repository path; a path of None makes it raise, which the
\* outermost handler of the method turns into None
ExtractPathCheck ==
    /\ pc = "extract"
    /\ IF args.repo_path = None \/ ~PathExists(args.repo_path)
       THEN ExtractReturn(None)
       ELSE /\ frame' = [frame EXCEPT !.commit_range = args.commit_range]
            /\ pc' = IF Truthy(args.commit_range) THEN "branch" ELSE "infer"
    /\ UNCHANGED <<store, env, provider, config, requests, args, last, trace, outcome, extracted>>

\* the inference with no try around its two queries: a raising query ends the extraction
InferCommitRange_GivesUp ==
    /\ pc = "infer"
    /\ \E a \in RevParseAnswers :
         IF a.raised # NoExc
         THEN /\ last' = Call("infer: rev-parse", <<>>, a)
              /\ ExtractReturn(None)
         ELSE \E r \in RemoteShowAnswers :
                /\ last' = Call("infer: remote show", a, r)
                /\ IF r.raised # NoExc
                   THEN ExtractReturn(None)
                   ELSE /\ pc' = "branch"
                        /\ frame' = IF SearchHeadBranch(r.stdout) # None
                                    THEN [frame EXCEPT !.commit_range =
                                             TextCat(TextCat(SearchHeadBranch(r.stdout), Lit("..", 2)),
                                                     Strip(a.stdout))]
                                    ELSE frame
    /\ trace' = Append(trace, Event("infer", "-"))
    /\ UNCHANGED <<store, env, provider, config, requests, args, outcome, extracted>>

\* an empty commit_range: infer "<default branch>..<current branch>"
InferCommitRange ==
    /\ pc = "infer"
    /\ \E a \in RevParseAnswers :
         IF a.raised # NoExc
         THEN /\ last' = Call("infer: rev-parse", <<>>, a)
              /\ frame' = frame
         ELSE \E r \in RemoteShowAnswers :
                /\ last' = Call("infer: remote show", a, r)
                /\ frame' = IF r.raised = NoExc /\ SearchHeadBranch(r.stdout) # None
                            THEN [frame EXCEPT !.commit_range =
                                     TextCat(TextCat(SearchHeadBranch(r.stdout), Lit("..", 2)),
                                             Strip(a.stdout))]
                            ELSE frame
    /\ trace' = Append(trace, Event("infer", "-"))
    /\ pc' = "branch"
    /\ UNCHANGED <<store, env, provider, config, requests, args, outcome, extracted>>

\* current_branch for the command of strategy 4
GetCurrentBranch ==
    /\ pc = "branch"
    /\ \E a \in RevParseAnswers :
         /\ last' = Call("rev-parse", <<>>, a)
         /\ frame' = [frame EXCEPT !.current_branch = IF a.raised # NoExc THEN <<>>
                                                      ELSE Strip(a.stdout),
                                   !.strategy = 1]
    /\ trace' = Append(trace, Event("rev-parse", "-"))
    /\ pc' = "probe"
    /\ UNCHANGED <<store, env, provider, config, requests, args, outcome, extracted>>

\* the loop body with the test of returncode left out
Probe_IgnoresReturnCode ==
    /\ pc = "probe"
    /\ LET methods == AlternativeMethods(frame.commit_range, frame.current_branch)
       IN  \E a \in ProbeAnswers :
             /\ last' = Call("probe", [k |-> frame.strategy, cmd |-> methods[frame.strategy]], a)
             /\ IF a.raised = NoExc /\ a.stdout # <<>>
                THEN /\ trace' = Append(trace, ProbeEvent(frame.strategy, "output"))
                     /\ ExtractReturn(LimitContent(a.stdout))
                     /\ extracted' = [output |-> a.stdout, result |-> LimitContent(a.stdout),
                                      again |-> a.stdout = extracted.output]
                ELSE /\ trace' = Append(trace, ProbeEvent(frame.strategy, "nothing"))
                     /\ extracted' = extracted
                     /\ IF frame.strategy < Len(methods)
                        THEN /\ frame' = [frame EXCEPT !.strategy = frame.strategy + 1]
                             /\ pc' = "probe"
                        ELSE /\ frame' = frame
                             /\ pc' = "summary"
    /\ UNCHANGED <<store, env, provider, config, requests, args, outcome>>

\* the loop with no try around subprocess.run: a raising command ends the extraction
Probe_StopsOnException ==
    /\ pc = "probe"
    /\ LET methods == AlternativeMethods(frame.commit_range, frame.current_branch)
       IN  \E a \in ProbeAnswers :
             /\ last' = Call("probe", [k |-> frame.strategy, cmd |-> methods[frame.strategy]], a)
             /\ IF a.raised = NoExc /\ a.returncode = 0 /\ a.stdout # <<>>
                THEN /\ trace' = Append(trace, ProbeEvent(frame.strategy, "output"))
                     /\ ExtractReturn(LimitContent(a.stdout))
                     /\ extracted' = [output |-> a.stdout, result |-> LimitContent(a.stdout),
                                      again |-> a.stdout = extracted.output]
                ELSE /\ trace' = Append(trace, ProbeEvent(frame.strategy, "nothing"))
                     /\ extracted' = extracted
                     /\ IF a.raised # NoExc
                        THEN ExtractReturn(None)
                        ELSE IF frame.strategy < Len(methods)
                             THEN /\ frame' = [frame EXCEPT !.strategy = frame.strategy + 1]
                                  /\ pc' = "probe"
                             ELSE /\ frame' = frame
                                  /\ pc' = "summary"
    /\ UNCHANGED <<store, env, provider, config, requests, args, outcome>>

\* the loop with the `if diff_content:` test left out
Probe_AcceptsEmpty ==
    /\ pc = "probe"
    /\ LET methods == AlternativeMethods(frame.commit_range, frame.current_branch)
       IN  \E a \in ProbeAnswers :
             /\ last' = Call("probe", [k |-> frame.strategy, cmd |-> methods[frame.strategy]], a)
             /\ IF a.raised = NoExc /\ a.returncode = 0
                THEN /\ trace' = Append(trace, ProbeEvent(frame.strategy, "output"))
                     /\ ExtractReturn(LimitContent(a.stdout))
                     /\ extracted' = [output |-> a.stdout, result |-> LimitContent(a.stdout),
                                      again |-> a.stdout = extracted.output]
                ELSE /\ trace' = Append(trace, ProbeEvent(frame.strategy, "nothing"))
                     /\ extracted' = extracted
                     /\ IF frame.strategy < Len(methods)
                        THEN /\ frame' = [frame EXCEPT !.strategy = frame.strategy + 1]
                             /\ pc' = "probe"
                        ELSE /\ frame' = frame
                             /\ pc' = "summary"
    /\ UNCHANGED <<store, env, provider, config, requests, args, outcome>>

\* the loop running a strategy a second time when its command raised
Probe_RetriesOnce ==
    /\ pc = "probe"
    /\ LET methods == AlternativeMethods(frame.commit_range, frame.current_branch)
           first   == ~\E i \in 1..Len(trace) : trace[i] = ProbeEvent(frame.strategy, "nothing")
       IN  \E a \in ProbeAnswers :
             /\ last' = Call("probe", [k |-> frame.strategy, cmd |-> methods[frame.strategy]], a)
             /\ IF a.raised = NoExc /\ a.returncode = 0 /\ a.stdout # <<>>
                THEN /\ trace' = Append(trace, ProbeEvent(frame.strategy, "output"))
                     /\ ExtractReturn(LimitContent(a.stdout))
                     /\ extracted' = [output |-> a.stdout, result |-> LimitContent(a.stdout),
                                      again |-> a.stdout = extracted.output]
                ELSE /\ trace' = Append(trace, ProbeEvent(frame.strategy, "nothing"))
                     /\ extracted' = extracted
                     /\ IF a.raised # NoExc /\ first
                        THEN /\ frame' = frame
                             /\ pc' = "probe"
                        ELSE IF frame.strategy < Len(methods)
                             THEN /\ frame' = [frame EXCEPT !.strategy = frame.strategy + 1]
                                  /\ pc' = "probe"
                             ELSE /\ frame' = frame
                                  /\ pc' = "summary"
    /\ UNCHANGED <<store, env, provider, config, requests, args, outcome>>

\* one iteration of the loop over alternative_methods
Probe ==
    /\ pc = "probe"
    /\ LET methods == AlternativeMethods(frame.commit_range, frame.current_branch)
       IN  \E a \in ProbeAnswers :
             /\ last' = Call("probe", [k |-> frame.strategy, cmd |-> methods[frame.strategy]], a)
             /\ IF a.raised = NoExc /\ a.returncode = 0 /\ a.stdout # <<>>
                THEN /\ trace' = Append(trace, ProbeEvent(frame.strategy, "output"))
                     /\ ExtractReturn(LimitContent(a.stdout))
                     /\ extracted' = [output |-> a.stdout, result |-> LimitContent(a.stdout),
                                      again |-> a.stdout = extracted.output]
                ELSE /\ trace' = Append(trace, ProbeEvent(frame.strategy, "nothing"))
                     /\ extracted' = extracted
                     /\ IF frame.strategy < Len(methods)
                        THEN /\ frame' = [frame EXCEPT !.strategy = frame.strategy + 1]
                             /\ pc' = "probe"
                        ELSE /\ frame' = frame
                             /\ pc' = "summary"
    /\ UNCHANGED <<store, env, provider, config, requests, args, outcome>>

\* the summary given up when a status query exits with a non-zero status
Summary_ChecksExitStatus ==
    /\ pc = "summary"
    /\ \E b \in RevParseAnswers :
         IF b.raised # NoExc
         THEN /\ last' = Call("summary: rev-parse", <<>>, b)
              /\ ExtractReturn(None)
         ELSE \E c \in LogAnswers :
                /\ last' = Call("summary: log", b, c)
                /\ ExtractReturn(IF c.raised # NoExc \/ b.returncode # 0 \/ c.returncode # 0
                                 THEN None
                                 ELSE BasicInfo(Strip(b.stdout), Strip(c.stdout)))
    /\ trace' = Append(trace, Event("summary", "-"))
    /\ UNCHANGED <<store, env, provider, config, requests, args, outcome, extracted>>

\* the summary given up when the branch query wrote no branch name
Summary_NeedsBranchName ==
    /\ pc = "summary"
    /\ \E b \in RevParseAnswers :
         IF b.raised # NoExc
         THEN /\ last' = Call("summary: rev-parse", <<>>, b)
              /\ ExtractReturn(None)
         ELSE \E c \in LogAnswers :
                /\ last' = Call("summary: log", b, c)
                /\ ExtractReturn(IF c.raised # NoExc \/ Strip(b.stdout) = <<>>
                                 THEN None
                                 ELSE BasicInfo(Strip(b.stdout), Strip(c.stdout)))
    /\ trace' = Append(trace, Event("summary", "-"))
    /\ UNCHANGED <<store, env, provider, config, requests, args, outcome, extracted>>

\* every strategy failed: the status summary, or None when a status query raises
Summary ==
    /\ pc = "summary"
    /\ \E b \in RevParseAnswers :
         IF b.raised # NoExc
         THEN /\ last' = Call("summary: rev-parse", <<>>, b)
              /\ ExtractReturn(None)
         ELSE \E c \in LogAnswers :
                /\ last' = Call("summary: log", b, c)
                /\ ExtractReturn(IF c.raised # NoExc THEN None
                                 ELSE BasicInfo(Strip(b.stdout), Strip(c.stdout)))
    /\ trace' = Append(trace, Event("summary", "-"))
    /\ UNCHANGED <<store, env, provider, config, requests, args, outcome, extracted>>

-----------------------------------------------------------------------------
(* _review_with_generic_llm and _call_llm_api: the hosted-API path *)

\* the provider names _call_llm_api has a client for
HostedClients == {"openai", "deepseek", "gemini"}

\* the method with the `if not code_context` test left out
GenericContext_IgnoresAbsent ==
    /\ pc = "generic_context"
    /\ pc' = "generic_prompt"
    /\ UNCHANGED <<store, env, provider, config, requests, args, frame, last, trace, outcome,
                   extracted>>

\* the method looking at custom_prompt before it looks at what the extraction returned
GenericContext_PromptFirst ==
    /\ pc = "generic_context"
    /\ IF ~Truthy(frame.code_context) /\ ~Truthy(args.custom_prompt)
       THEN Return("ErrorMessage", NoContextMessage)
       ELSE pc' = "generic_prompt" /\ UNCHANGED <<frame, outcome>>
    /\ UNCHANGED <<store, env, provider, config, requests, args, last, trace, extracted>>

\* the test of what the extraction returned
GenericContext ==
    /\ pc = "generic_context"
    /\ IF ~Truthy(frame.code_context)
       THEN Return("ErrorMessage", NoContextMessage)
       ELSE pc' = "generic_prompt" /\ UNCHANGED <<frame, outcome>>
    /\ UNCHANGED <<store, env, provider, config, requests, args, last, trace, extracted>>

\* prompt resolution that looks at mr_info before custom_prompt
GenericPrompt_SubjectFirst ==
    /\ pc = "generic_prompt"
    /\ IF MrTruthy(args.mr_info)
       THEN /\ frame' = [frame EXCEPT !.final_prompt =
                            BuildGenericLlmPrompt(args.mr_info, frame.code_context)]
            /\ trace' = Append(trace, Event("_build_generic_llm_prompt", "ok"))
       ELSE IF Truthy(args.custom_prompt)
            THEN /\ frame' = [frame EXCEPT !.final_prompt = args.custom_prompt]
                 /\ trace' = trace
            ELSE /\ frame' = [frame EXCEPT !.final_prompt = BuildPrompt(frame.code_context)]
                 /\ trace' = Append(trace, Event("_build_prompt", "ok"))
    /\ pc' = "generic_call"
    /\ UNCHANGED <<store, env, provider, config, requests, args, last, outcome, extracted>>

\* prompt resolution that leaves final_prompt at None as the two other adapters do
GenericPrompt_PromptLess ==
    /\ pc = "generic_prompt"
    /\ IF Truthy(args.custom_prompt)
       THEN /\ frame' = [frame EXCEPT !.final_prompt = args.custom_prompt]
            /\ trace' = trace
       ELSE IF MrTruthy(args.mr_info)
            THEN /\ frame' = [frame EXCEPT !.final_prompt =
                                 BuildGenericLlmPrompt(args.mr_info, frame.code_context)]
                 /\ trace' = Append(trace, Event("_build_generic_llm_prompt", "ok"))
            ELSE /\ frame' = [frame EXCEPT !.final_prompt = None]
                 /\ trace' = trace
    /\ pc' = "generic_call"
    /\ UNCHANGED <<store, env, provider, config, requests, args, last, outcome, extracted>>

\* final_prompt: the caller's text, else the subject template, else the default template
GenericPrompt ==
    /\ pc = "generic_prompt"
    /\ IF Truthy(args.custom_prompt)
       THEN /\ frame' = [frame EXCEPT !.final_prompt = args.custom_prompt]
            /\ trace' = trace
       ELSE IF MrTruthy(args.mr_info)
            THEN /\ frame' = [frame EXCEPT !.final_prompt =
                                 BuildGenericLlmPrompt(args.mr_info, frame.code_context)]
                 /\ trace' = Append(trace, Event("_build_generic_llm_prompt", "ok"))
            ELSE /\ frame' = [frame EXCEPT !.final_prompt = BuildPrompt(frame.code_context)]
                 /\ trace' = Append(trace, Event("_build_prompt", "ok"))
    /\ pc' = "generic_call"
    /\ UNCHANGED <<store, env, provider, config, requests, args, last, outcome, extracted>>

\* _call_llm_api whose "not supported" case ends the review with the message
CallLlmApi_FailsUnsupported ==
    /\ pc = "generic_call"
    /\ IF Lower(provider) \in HostedClients
       THEN \E a \in HostedAnswers :
              /\ trace' = Append(trace, Event("hosted_call",
                                              IF a.raised # NoExc THEN "raised" ELSE "ok"))
              /\ last' = Call("hosted_call",
                              [client |-> Lower(provider), prompt |-> frame.final_prompt], a)
              /\ frame' = [frame EXCEPT !.review_content =
                              IF a.raised # NoExc THEN ApiFailureMessage(a.raised.text)
                              ELSE a.text]
              /\ pc' = "generic_parse"
              /\ outcome' = outcome
       ELSE /\ Return("ErrorMessage", UnsupportedMessage(provider))
            /\ UNCHANGED <<trace, last>>
    /\ UNCHANGED <<store, env, provider, config, requests, args, extracted>>

\* _call_llm_api(final_prompt): the provider's client, whose exception becomes the
\* returned text, or the "not supported" text when there is no client
CallLlmApi ==
    /\ pc = "generic_call"
    /\ IF Lower(provider) \in HostedClients
       THEN \E a \in HostedAnswers :
              /\ trace' = Append(trace, Event("hosted_call",
                                              IF a.raised # NoExc THEN "raised" ELSE "ok"))
              /\ last' = Call("hosted_call",
                              [client |-> Lower(provider), prompt |-> frame.final_prompt], a)
              /\ frame' = [frame EXCEPT !.review_content =
                              IF a.raised # NoExc THEN ApiFailureMessage(a.raised.text)
                              ELSE a.text]
       ELSE /\ frame' = [frame EXCEPT !.review_content = UnsupportedMessage(provider)]
            /\ UNCHANGED <<trace, last>>
    /\ pc' = "generic_parse"
    /\ UNCHANGED <<store, env, provider, config, requests, args, outcome, extracted>>

\* _review_with_generic_llm returning review_content where it returns parsed_result
GenericParse_ReturnsRawText ==
    /\ pc = "generic_parse"
    /\ \/ /\ Raise(ImportFailure, "generic_except")
          /\ UNCHANGED <<last, trace>>
       \/ \E a \in ParseAnswers, d \in Durations :
            /\ trace' = Append(trace, Event("parse", IF a.raised # NoExc THEN "raised" ELSE "ok"))
            /\ last' = Call("parse", [result |-> frame.review_content, duration_ms |-> d], a)
            /\ IF a.raised # NoExc
               THEN Raise(a.raised, "generic_except")
               ELSE IF "score" \notin DOMAIN a.value
                    THEN Raise(Exception("KeyError", Lit("'score'", 7)), "generic_except")
                    ELSE Return("ErrorMessage", frame.review_content)
    /\ UNCHANGED <<store, env, provider, config, requests, args, extracted>>

\* the parser import, parser.parse(review_data), the log line that reads the score
GenericParse ==
    /\ pc = "generic_parse"
    /\ \/ /\ Raise(ImportFailure, "generic_except")
          /\ UNCHANGED <<last, trace>>
       \/ \E a \in ParseAnswers, d \in Durations :
            /\ trace' = Append(trace, Event("parse", IF a.raised # NoExc THEN "raised" ELSE "ok"))
            /\ last' = Call("parse", [result |-> frame.review_content, duration_ms |-> d], a)
            /\ IF a.raised # NoExc
               THEN Raise(a.raised, "generic_except")
               ELSE IF "score" \notin DOMAIN a.value
                    THEN Raise(Exception("KeyError", Lit("'score'", 7)), "generic_except")
                    ELSE Return("ParserResult", a.value)
    /\ UNCHANGED <<store, env, provider, config, requests, args, extracted>>

\* the except clause of _review_with_generic_llm
GenericExcept ==
    /\ pc = "generic_except"
    /\ IF IsInstance(frame.exc, "Exception")
       THEN Return("ErrorMessage", FailureMessage(frame.exc.text))
       ELSE pc' = "except" /\ UNCHANGED <<frame, outcome>>
    /\ UNCHANGED <<store, env, provider, config, requests, args, last, trace, extracted>>

-----------------------------------------------------------------------------

Next ==
    \/ Construct
    \/ ReviewCode
    \/ ReviewCodeExcept
    \/ ClaudeValidate
    \/ ClaudePrompt
    \/ ClaudeExecute
    \/ ClaudeParse
    \/ OllamaValidate
    \/ OllamaPrompt
    \/ OllamaExecute
    \/ OllamaParse
    \/ ExtractPathCheck
    \/ InferCommitRange
    \/ GetCurrentBranch
    \/ Probe
    \/ Summary
    \/ GenericContext
    \/ GenericPrompt
    \/ CallLlmApi
    \/ GenericParse
    \/ GenericExcept

Spec == Init /\ [][Next]_vars

\* the steps of a review_code call in progress: the interpreter runs the call on, every
\* collaborator call returning or raising
Steps ==
    \/ ReviewCodeExcept
    \/ ClaudeValidate \/ ClaudePrompt \/ ClaudeExecute \/ ClaudeParse
    \/ OllamaValidate \/ OllamaPrompt \/ OllamaExecute \/ OllamaParse
    \/ ExtractPathCheck \/ InferCommitRange \/ GetCurrentBranch \/ Probe \/ Summary
    \/ GenericContext \/ GenericPrompt \/ CallLlmApi \/ GenericParse \/ GenericExcept

\* Spec with every call in progress run to its end
LiveSpec == Spec /\ WF_vars(Steps)

-----------------------------------------------------------------------------
(* Concurrent requests: each request constructs its own LLMService and calls review_code; *)
(* the requests share the LLMConfig table and os.environ                                  *)

Requests == {1, 2}

\* a record with other values than FullRecord gives
OtherRecord(p) ==
    StoreRecord("record", p, Lit("sk-two", 6), Lit("https://two", 11), Lit("model-two", 9))

\* what the table holds over time in the concurrent model
RequestStores ==
    {NoActiveRecord, FullRecord("openai"), OtherRecord("openai"), OtherRecord("deepseek"),
     FullRecord("mock")}

\* a request before it constructs its controller; inherited is the environment the child
\* processes of its latest review_code call were started with
NewController ==
    [phase |-> "new", provider |-> NoProvider, config |-> NoConfig, inherited |-> StartEnv]

InitRequests ==
    /\ store \in RequestStores
    /\ env = StartEnv
    /\ requests = [r \in Requests |-> NewController]
    /\ provider = NoProvider
    /\ config = NoConfig
    /\ pc = "Unconstructed"
    /\ args = NoArgs
    /\ frame = FreshFrame
    /\ last = NoCall
    /\ trace = <<>>
    /\ outcome = NoOutcome
    /\ extracted = NoExtraction

\* an administrator activates another record, or deactivates the active one
ChangeActiveRecord ==
    /\ \E rec \in RequestStores \ {store} : store' = rec
    /\ UNCHANGED <<env, requests, provider, config, pc, args, frame, last, trace, outcome,
                   extracted>>

\* request r runs LLMService(request_id)
RequestConstruct(r) ==
    /\ requests[r].phase = "new"
    /\ IF store.kind # "record"
       THEN /\ requests' = [requests EXCEPT ![r].phase = "failed"]
            /\ env' = env
       ELSE /\ requests' = [requests EXCEPT ![r].phase = "configured",
                                            ![r].provider = store.provider,
                                            ![r].config = LoadedConfig(store)]
            /\ env' = IF LoadedConfig(store).is_mock
                      THEN env
                      ELSE SetEnvironmentVariables(env, store.provider, LoadedConfig(store))
    /\ UNCHANGED <<store, provider, config, pc, args, frame, last, trace, outcome, extracted>>

\* request r runs review_code on an existing repository: under the hosted-API dispatch the
\* extraction engine starts git with subprocess.run and no env argument, so the child
\* processes are started with os.environ as it is at that moment
RequestReview(r) ==
    /\ requests[r].phase \in {"configured", "reviewed"}
    /\ requests' = [requests EXCEPT ![r].phase = "reviewed",
                                    ![r].inherited =
                                        IF SelectAdapter(requests[r].provider) = "extract"
                                        THEN env ELSE @]
    /\ UNCHANGED <<store, env, provider, config, pc, args, frame, last, trace, outcome,
                   extracted>>

NextRequests ==
    \/ ChangeActiveRecord
    \/ \E r \in Requests : RequestConstruct(r)
    \/ \E r \in Requests : RequestReview(r)

SpecRequests == InitRequests /\ [][NextRequests]_vars

-----------------------------------------------------------------------------
(* Vocabulary of the properties *)

\* the latest review_code call has returned to its caller
CallEnded == pc = "Configured" /\ outcome # NoOutcome

\* the call in progress, or the latest one, made collaborator call `op` with result `res`
Happened(op, res) == \E i \in 1..Len(trace) : trace[i].op = op /\ trace[i].res = res

Builders == {"_build_claude_cli_prompt", "_build_generic_llm_prompt", "_build_prompt"}

\* adapter selection sends the configured provider to the command-line or local adapter
LocalFamily == SelectAdapter(provider) \in {"claude_validate", "ollama_validate"}

HostedFamily == SelectAdapter(provider) = "extract"

\* the probe events of the trace, in order
ProbeEvents == SelectSeq(trace, LAMBDA e : e.op = "probe")

\* sub occurs in t as consecutive runs
Contains(t, sub) ==
    \E i \in 1..(Len(t) - Len(sub) + 1) : SubSeq(t, i, i + Len(sub) - 1) = sub

\* _get_code_context_from_repo has just returned the output of a strategy
StrategyWon == pc = "generic_context" /\ last.op = "probe"

\* subprocess.run completed with status 0 and wrote something
Yielded(a) == a.raised = NoExc /\ a.returncode = 0 /\ a.stdout # <<>>

-----------------------------------------------------------------------------
(* Properties *)

\* C1: a review_code call that has ended handed its caller either the value the parser
\* returned or an error-message string, never an exception; and an exception in flight
\* is always on its way to a handler.
C1_TwoShapes ==
    /\ CallEnded =>
         /\ outcome.kind \in {"ParserResult", "ErrorMessage"}
         /\ outcome.kind = "ParserResult" =>
              /\ last.op = "parse"
              /\ last.ret.raised = NoExc
              /\ outcome.value = last.ret.value
    /\ frame.exc # NoExc => pc \in {"except", "generic_except"}

\* a collaborator raised and the call still ended with an error message
C1_Witness ==
    /\ CallEnded
    /\ outcome.kind = "ErrorMessage"
    /\ \E op \in {"validate", "execute", "parse"} : Happened(op, "raised")

\* C2: with a provider that selection sends to the command-line or local adapter and
\* no repository path, the call makes no validate and no execute call and ends with an
\* error message.
C2_NoRepoNoAdapter ==
    (LocalFamily /\ ~Truthy(args.repo_path)) =>
        /\ {"validate", "execute"} \cap Ops(trace) = {}
        /\ CallEnded => outcome.kind = "ErrorMessage"

C3_WitnessCli ==
    /\ CallEnded /\ Lower(provider) = "claude" /\ Happened("execute", "ok")
    /\ last.op = "parse" /\ last.ret.raised = NoExc /\ IsStructured(last.ret.value)

C3_WitnessLocal ==
    /\ CallEnded /\ Lower(provider) = "ollama" /\ Happened("execute", "ok")
    /\ last.op = "parse" /\ last.ret.raised = NoExc /\ IsStructured(last.ret.value)

\* C4: when the execute step failed (the adapter reported not-ok, or the hosted client
\* raised), the parser is not called and the call ends with an error message.
C4_NoParseAfterFailedExecute ==
    ( \/ Happened("execute", "not_ok")
      \/ Happened("execute", "raised")
      \/ Happened("hosted_call", "raised") )
    => /\ "parse" \notin Ops(trace)
       /\ CallEnded => outcome.kind = "ErrorMessage"

\* C5: on the command-line and local adapters validate comes before execute, and a
\* validate that reports not-ok ends the call with an error message that carries the
\* reason, with no prompt builder, execute or parser call.
C5_ValidateFirst ==
    /\ LocalFamily =>
         \A i \in 1..Len(trace) :
           trace[i].op \in {"execute"} \cup Builders =>
               \E j \in 1..(i - 1) : trace[j].op = "validate" /\ trace[j].res = "ok"
    /\ LocalFamily /\ pc \notin {"Configured", "claude_validate", "ollama_validate", "except"}
         => Happened("validate", "ok")
    /\ Happened("validate", "not_ok") =>
         /\ CallEnded
         /\ Ops(trace) = {"validate"}
         /\ last.op = "validate"
         /\ outcome.kind = "ErrorMessage"
         /\ TextDrop(outcome.value, TextLen(outcome.value) - TextLen(last.ret.validation_error))
              = last.ret.validation_error

C5_Witness ==
    /\ CallEnded
    /\ last.op = "validate"
    /\ last.ret.raised = NoExc
    /\ ~last.ret.is_valid
    /\ Truthy(last.ret.validation_error)

\* C6: with non-empty custom prompt text no template builder is called, and the prompt
\* the execute step (or the hosted client) receives is the caller's text.
C6_CustomPromptWins ==
    Truthy(args.custom_prompt) =>
        /\ Builders \cap Ops(trace) = {}
        /\ last.op = "execute" => last.arg.custom_prompt = args.custom_prompt
        /\ last.op = "hosted_call" => last.arg.prompt = args.custom_prompt

\* the hosted client was called with the caller's text although a subject was supplied
C6_Witness ==
    /\ Truthy(args.custom_prompt)
    /\ MrTruthy(args.mr_info)
    /\ last.op = "hosted_call"
    /\ last.arg.prompt = args.custom_prompt

C6_WitnessLocal ==
    /\ Truthy(args.custom_prompt)
    /\ MrTruthy(args.mr_info)
    /\ last.op = "execute"
    /\ last.arg.custom_prompt = args.custom_prompt

\* C7: the strategies are probed in the order 1, 2, ..., at most five of them; a probe
\* that exits with status 0 and non-empty output is the last one of the extraction, and
\* what the extraction returns is that probe's output (cut to the limit); a probe that
\* yields nothing is followed by the next strategy or, after the fifth, by the summary.
C7_FirstYieldEndsChain ==
    /\ Len(ProbeEvents) <= 5
    /\ \A i \in 1..Len(ProbeEvents) :
         /\ ProbeEvents[i].k = i
         /\ i < Len(ProbeEvents) => ProbeEvents[i].res = "nothing"
    /\ last.op = "probe" /\ pc \in {"probe", "summary", "generic_context"} =>
         /\ last.arg.k = Len(ProbeEvents)
         /\ IF Yielded(last.ret)
            THEN /\ pc = "generic_context"
                 /\ ProbeEvents[Len(ProbeEvents)].res = "output"
                 /\ TextTake(frame.code_context, MaxContentLen)
                      = TextTake(last.ret.stdout, MaxContentLen)
                 /\ TextLen(last.ret.stdout) <= MaxContentLen
                      => frame.code_context = last.ret.stdout
            ELSE /\ pc = IF last.arg.k < 5 THEN "probe" ELSE "summary"
                 /\ ProbeEvents[Len(ProbeEvents)].res = "nothing"
                 /\ frame.code_context = None

\* only strategy 3 yielded: 1 and 2 ran and were discarded, 4 and 5 never ran
C7_Witness ==
    /\ StrategyWon
    /\ ProbeEvents = <<ProbeEvent(1, "nothing"), ProbeEvent(2, "nothing"), ProbeEvent(3, "output")>>
    /\ frame.code_context = last.ret.stdout

\* C8 as stated: every value the extraction returns is within the limit of 20,000
\* characters.
C8_WithinLimit ==
    pc = "generic_context" /\ frame.code_context # None
        => TextLen(frame.code_context) <= MaxContentLen

\* C8 as amended: every value the extraction returns from a strategy's output is within
\* the limit plus the length of the truncation marker, and within the limit itself when
\* the output was.
C8_WithinLimitPlusMarker ==
    StrategyWon =>
        /\ TextLen(frame.code_context) <= MaxContentLen + TextLen(TruncationMarker)
        /\ TextLen(last.ret.stdout) <= MaxContentLen
             => TextLen(frame.code_context) <= MaxContentLen

\* a cut diff was returned: it is longer than the limit
C8_Witness ==
    /\ StrategyWon
    /\ TextLen(last.ret.stdout) > MaxContentLen + TextLen(TruncationMarker)
    /\ TextLen(frame.code_context) > MaxContentLen

\* the result of the winning output s: cut and marked when len(s) > 20000, s otherwise
C9_ResultOf(s, r) ==
    IF TextLen(s) > MaxContentLen
    THEN /\ TextLen(r) = MaxContentLen + TextLen(TruncationMarker)
         /\ TextTake(r, MaxContentLen) = TextTake(s, MaxContentLen)
         /\ TextDrop(r, MaxContentLen) = TruncationMarker
    ELSE r = s

\* an extraction won by the output the extraction before it was won by returns the
\* text that one returned
C9_Repeat ==
    (pc = "probe" /\ pc' = "generic_context" /\ last'.ret.stdout = extracted.output)
        => frame'.code_context = extracted.result

\* C9: the text returned for the winning output s is the first 20000 characters of s
\* followed by the marker when len(s) > 20000 and s itself otherwise, and the same
\* output gives the same text when the extraction is repeated.
C9_Truncation ==
    /\ [](StrategyWon => C9_ResultOf(last.ret.stdout, frame.code_context))
    /\ [][C9_Repeat]_vars

\* an output longer than the limit won, after an extraction won by the same output
C9_Witness ==
    /\ StrategyWon
    /\ TextLen(last.ret.stdout) = MaxContentLen + 1
    /\ extracted.again

\* an output of exactly the limit won
C9_WitnessAtLimit ==
    /\ StrategyWon
    /\ TextLen(last.ret.stdout) = MaxContentLen

\* the five strategies were probed and none yielded
AllStrategiesFailed ==
    /\ Len(ProbeEvents) = 5
    /\ \A i \in 1..5 : ProbeEvents[i].res = "nothing"

\* C10: with an existing repository path, all five strategies yielding nothing and both
\* status queries completing without raising, the extraction returns the status summary,
\* a text that holds the branch name and the commit message, and not None.
C10_SummaryFallback ==
    ( /\ pc = "generic_context"
      /\ PathExists(args.repo_path)
      /\ AllStrategiesFailed
      /\ last.op = "summary: log"
      /\ last.arg.raised = NoExc
      /\ last.ret.raised = NoExc )
    => /\ frame.code_context # None
       /\ Truthy(frame.code_context)
       /\ Contains(frame.code_context, Strip(last.arg.stdout))
       /\ Contains(frame.code_context, Strip(last.ret.stdout))

\* the summary was returned with a branch name and a commit message in it
C10_Witness ==
    /\ pc = "generic_context"
    /\ AllStrategiesFailed
    /\ last.op = "summary: log"
    /\ last.ret.raised = NoExc
    /\ Truthy(Strip(last.arg.stdout))
    /\ Truthy(Strip(last.ret.stdout))
    /\ Truthy(frame.code_context)

\* the summary was returned although both status queries exited with a non-zero status
C10_WitnessNonZero ==
    /\ pc = "generic_context"
    /\ AllStrategiesFailed
    /\ last.op = "summary: log"
    /\ last.arg.returncode # 0
    /\ last.ret.returncode # 0
    /\ Truthy(frame.code_context)


\* the snapshot fields and the process environment
Snapshot == <<provider, config, env>>

\* construction has succeeded: the controller is Configured or inside a review_code call
Constructed == pc \notin {"Unconstructed", "ConstructionFailed"}

\* os.path.exists is false for the path, or raises for it
MissingPath(path) == path = None \/ ~PathExists(path)

\* the hosted-API dispatch of a call whose repository path does not exist
C11_Case == Constructed /\ HostedFamily /\ MissingPath(args.repo_path)

\* C11: when the repository path does not exist, extraction returns None at once, with no
\* inference, strategy or summary command run; the hosted-API dispatch then returns the
\* "no change content obtained" message as a value, with no hosted call and no parser
\* call, and neither the snapshot nor the process environment changes on the way.
C11_RepositoryNotFound ==
    /\ [](C11_Case =>
            /\ trace = <<>>
            /\ pc \in {"Configured", "extract", "generic_context"}
            /\ pc = "generic_context" => frame.code_context = None
            /\ CallEnded => outcome = [kind |-> "ErrorMessage", value |-> NoContextMessage])
    /\ [][C11_Case => Snapshot' = Snapshot]_vars

C11_Witness ==
    /\ CallEnded
    /\ HostedFamily
    /\ args.repo_path = Lit("/missing", 8)
    /\ outcome = [kind |-> "ErrorMessage", value |-> NoContextMessage]
    /\ env["LLM_MODEL"] # None

\* a hosted API client, the command-line tool or the local service was contacted
Contacted == Ops(trace) \cap {"hosted_call", "validate", "execute"} # {}

\* C12: with a mock configuration (is_mock), every review_code call that has ended handed
\* its caller a structured result, not an error message, and contacted no hosted API
\* client, command-line tool or local service.  (That the result is the same for the same
\* arguments presupposes that there is a result.)
C12_MockStructured ==
    (Constructed /\ config.is_mock /\ CallEnded) =>
        /\ outcome.kind = "ParserResult"
        /\ ~Contacted

\* C13: the configuration snapshot (provider, credential, base URL, model, mock flag) is
\* assigned only during construction: once construction has finished every field holds
\* what _load_config read from the active record, no step of a review_code call changes
\* a field, and no step of a review_code call writes a process environment variable.
C13_SnapshotFrozen ==
    /\ [](Constructed => provider = store.provider /\ config = LoadedConfig(store))
    /\ [][Constructed => (provider' = provider /\ config' = config /\ env' = env)]_vars

\* a second review_code call has ended, on a controller whose snapshot is not the default
C13_Witness ==
    /\ CallEnded
    /\ outcome.kind = "ParserResult"
    /\ extracted.again
    /\ config.api_key = Lit("sk-one", 6)
    /\ env["OPENAI_API_KEY"] = Lit("sk-one", 6)

\* C14: when no configuration record is active, construction fails with a configuration
\* error before any snapshot field is assigned and before any environment variable is
\* written; the controller never becomes Configured, so no review_code call is ever
\* dispatched from it, and once construction has failed nothing more happens (no retry).
C14_NoActiveConfiguration ==
    /\ [](store = NoActiveRecord =>
            /\ pc \in {"Unconstructed", "ConstructionFailed"}
            /\ provider = NoProvider /\ config = NoConfig /\ env = StartEnv
            /\ args = NoArgs /\ trace = <<>>
            /\ pc = "ConstructionFailed" =>
                  outcome = [kind |-> "Raised", value |-> NoConfigError])
    /\ [][pc # "ConstructionFailed"]_vars

C14_Witness ==
    /\ store = NoActiveRecord
    /\ pc = "ConstructionFailed"
    /\ outcome = [kind |-> "Raised", value |-> NoConfigError]

\* the keys construction has to leave alone: all of them for a mock configuration, else
\* those of other families and those whose configured value is absent
C15_Untouched ==
    IF config.is_mock THEN EnvNames
    ELSE EnvNames \ ( (IF Truthy(config.api_key) THEN {CredentialVariable(provider)} ELSE {})
                      \cup (IF Truthy(config.api_base) THEN {BaseUrlVariable(provider)} ELSE {})
                      \cup (IF Truthy(config.model) THEN {"LLM_MODEL"} ELSE {}) )

\* C15 as stated: after a successful construction with a non-mock configuration the
\* environment holds the family's credential variable equal to the configured credential
\* and the family's base-URL variable equal to the configured base URL, each when the
\* configured value is present, and LLM_MODEL equal to the configured model; a mock
\* configuration writes no environment variable.
C15_EnvironmentHolds ==
    Constructed =>
        IF config.is_mock
        THEN env = StartEnv
        ELSE /\ (CredentialVariable(provider) # NoVariable /\ Truthy(config.api_key))
                   => env[CredentialVariable(provider)] = config.api_key
             /\ (BaseUrlVariable(provider) # NoVariable /\ Truthy(config.api_base))
                   => env[BaseUrlVariable(provider)] = config.api_base
             /\ env["LLM_MODEL"] = config.model

\* C15, amended: the same, with LLM_MODEL equal to the configured model when the model is
\* present, and with every other key (another family's, one whose configured value is
\* absent, all of them for a mock configuration) as it was before construction.
C15_EnvironmentHoldsWhenPresent ==
    Constructed =>
        /\ (~config.is_mock /\ CredentialVariable(provider) # NoVariable /\ Truthy(config.api_key))
              => env[CredentialVariable(provider)] = config.api_key
        /\ (~config.is_mock /\ BaseUrlVariable(provider) # NoVariable /\ Truthy(config.api_base))
              => env[BaseUrlVariable(provider)] = config.api_base
        /\ (~config.is_mock /\ Truthy(config.model)) => env["LLM_MODEL"] = config.model
        /\ \A name \in C15_Untouched : env[name] = StartEnv[name]

\* construction has just succeeded for a family that has both keys
C15_Witness ==
    /\ pc = "Configured" /\ outcome = NoOutcome /\ trace = <<>>
    /\ provider = "deepseek"
    /\ env["DEEPSEEK_API_KEY"] = Lit("sk-one", 6)
    /\ env["DEEPSEEK_API_BASE"] = Lit("https://one", 11)
    /\ env["LLM_MODEL"] = Lit("model-one", 9)

\* construction has just succeeded with an empty credential, no base URL and no model
C15_WitnessAbsent ==
    /\ pc = "Configured" /\ outcome = NoOutcome
    /\ provider = "deepseek" /\ ~Truthy(config.model)
    /\ env = StartEnv

\* construction has just succeeded with a mock configuration
C15_WitnessMock ==
    /\ pc = "Configured" /\ outcome = NoOutcome
    /\ config.is_mock /\ Truthy(config.api_key)
    /\ env = StartEnv

\* what request r's own construction made of the environment the process started with
C16_OwnEnvironment(r) ==
    IF requests[r].config.is_mock THEN StartEnv
    ELSE SetEnvironmentVariables(StartEnv, requests[r].provider, requests[r].config)

\* C16: with several requests running concurrently, each with its own controller, no
\* request writes a process-wide or shared location that another request reads: what the
\* review_code call of a request reads of the process environment is what the process
\* started with and what that request's own construction wrote, under every interleaving,
\* the active configuration record changing between two constructions included.
C16_NoSharedWrites ==
    \A r \in DOMAIN requests :
        requests[r].phase = "reviewed" => requests[r].inherited = C16_OwnEnvironment(r)

\* the probe of this step exited non-zero, raised, or timed out
C17_ProbeFailed ==
    /\ pc = "probe"
    /\ last'.op = "probe"
    /\ \/ last'.ret.raised # NoExc
       \/ last'.ret.returncode # 0

\* C17: a probe that exits non-zero, raises an execution error or times out neither ends
\* the extraction nor propagates: after strategy k < 5 strategy k + 1 is attempted next,
\* and after strategy 5 the engine goes on to the status summary.
C17_FailedProbeContinues ==
    [][C17_ProbeFailed =>
         /\ outcome' = outcome
         /\ frame'.exc = NoExc
         /\ IF frame.strategy < 5
            THEN pc' = "probe" /\ frame'.strategy = frame.strategy + 1
            ELSE pc' = "summary"]_vars

\* strategy 5 is about to run after strategy 4 timed out
C17_Witness ==
    /\ pc = "probe" /\ frame.strategy = 5
    /\ last.op = "probe" /\ last.arg.k = 4 /\ last.ret.raised = TimedOut

\* the summary is about to run after strategy 5 exited with a non-zero status
C17_WitnessLast ==
    /\ pc = "summary"
    /\ last.op = "probe" /\ last.arg.k = 5
    /\ last.ret.raised = NoExc /\ last.ret.returncode # 0

\* C18: the extraction engine never returns an empty string: whatever the inference,
\* strategy and summary commands answer, what _get_code_context_from_repo returns is None
\* or a text of at least one character.
C18_NeverEmpty ==
    pc = "generic_context" =>
        \/ frame.code_context = None
        \/ TextLen(frame.code_context) > 0

\* every strategy ran, the last one exiting with status 0 and no output, and the summary
\* was returned for status queries that wrote nothing
C18_Witness ==
    /\ pc = "generic_context"
    /\ Len(ProbeEvents) = 5
    /\ last.op = "summary: log"
    /\ last.arg.stdout = <<>> /\ last.ret.raised = NoExc /\ last.ret.stdout = <<>>
    /\ frame.code_context # None

\* the engine returned None after the repository was found
C18_WitnessNone ==
    /\ pc = "generic_context"
    /\ Len(ProbeEvents) = 5
    /\ frame.code_context = None

\* _get_code_context_from_repo is running, or has just returned
ExtractionRan == pc \in {"extract", "infer", "branch", "probe", "summary", "generic_context"}

\* C19: diff extraction runs only when the selected adapter is hosted-API-backed and the
\* caller supplied no prompt: never for the command-line or local-service adapter, and
\* never for a hosted-API provider when the caller supplied custom prompt text.
C19_ExtractionOnlyWithoutPrompt ==
    ExtractionRan => (HostedFamily /\ ~Truthy(args.custom_prompt))

\* the hosted-API dispatch of a call without caller-supplied prompt text
C20_Case == Constructed /\ HostedFamily /\ ~Truthy(args.custom_prompt)

\* prompt assembly, the provider call and the parser
C20_Later == Builders \cup {"hosted_call", "parse"}

\* C20: for a hosted-API provider without a caller-supplied prompt, diff extraction
\* completes before any prompt is assembled and before the provider is called; when it
\* returns None or an empty text the review returns the "no change content obtained"
\* message and neither prompt assembly, the provider call nor the parser runs.
C20_ExtractionFirst ==
    /\ [](C20_Case =>
            /\ ExtractionRan => Ops(trace) \cap C20_Later = {}
            /\ pc \in {"generic_prompt", "generic_call", "generic_parse"} =>
                  /\ Truthy(frame.code_context)
                  /\ Happened("probe", "output") \/ Happened("summary", "-")
            /\ Ops(trace) \cap C20_Later # {} =>
                  Happened("probe", "output") \/ Happened("summary", "-"))
    /\ [][(C20_Case /\ pc = "generic_context" /\ ~Truthy(frame.code_context)) =>
             /\ pc' = "Configured"
             /\ outcome' = [kind |-> "ErrorMessage", value |-> NoContextMessage]
             /\ trace' = trace]_vars

\* every git command ran, extraction returned None, and the call ended with the message
C20_Witness ==
    /\ CallEnded /\ C20_Case
    /\ Lower(provider) \in HostedClients
    /\ Happened("summary", "-")
    /\ outcome = [kind |-> "ErrorMessage", value |-> NoContextMessage]
    /\ Ops(trace) \cap C20_Later = {}

\* extraction returned a diff, then the prompt was assembled, the provider called and the
\* response parsed
C20_WitnessReviewed ==
    /\ CallEnded /\ C20_Case
    /\ Happened("probe", "output")
    /\ Ops(trace) \cap Builders # {}
    /\ Happened("hosted_call", "ok")
    /\ outcome.kind = "ParserResult"

\* the adapter family a provider identifier stands for
C21_Family(p) ==
    IF Lower(p) = "claude" THEN "command-line"
    ELSE IF Lower(p) = "ollama" THEN "local-service"
    ELSE "hosted-API"

\* the adapter family whose method the controller is in
C21_Running ==
    CASE pc \in {"claude_validate", "claude_prompt", "claude_execute", "claude_parse"}
           -> "command-line"
      [] pc \in {"ollama_validate", "ollama_prompt", "ollama_execute", "ollama_parse"}
           -> "local-service"
      [] pc \in {"extract", "infer", "branch", "probe", "summary", "generic_context",
                 "generic_prompt", "generic_call", "generic_parse", "generic_except"}
           -> "hosted-API"
      [] OTHER -> "none"

\* C21: adapter selection is a function of the lower-cased provider identifier alone:
\* 'claude' selects the command-line adapter, 'ollama' the local-service adapter, every
\* other identifier the hosted-API path, in which 'openai', 'deepseek' and 'gemini' get
\* their own client; whatever the arguments of the call, the method that runs is the one
\* of that family, and a call validates or executes at most one family.
C21_SelectionByProvider ==
    Constructed =>
        /\ C21_Running # "none" => C21_Running = C21_Family(provider)
        /\ Ops(trace) \cap {"validate", "execute"} # {} =>
              /\ C21_Family(provider) # "hosted-API"
              /\ "hosted_call" \notin Ops(trace)
        /\ "hosted_call" \in Ops(trace) =>
              /\ C21_Family(provider) = "hosted-API"
              /\ Lower(provider) \in {"openai", "deepseek", "gemini"}
        /\ last.op = "hosted_call" => last.arg.client = Lower(provider)

\* the command-line adapter is about to be executed for the identifier 'Claude'
C21_Witness ==
    /\ pc = "claude_execute"
    /\ provider = "Claude"
    /\ Happened("validate", "ok")

\* the gemini client was called
C21_WitnessHosted ==
    /\ pc = "generic_parse"
    /\ last.op = "hosted_call" /\ last.arg.client = "gemini"

\* the prompt the precedence gives, for the subject template and the default of a family
C22_Resolved(subject, default) ==
    IF Truthy(args.custom_prompt) THEN args.custom_prompt
    ELSE IF MrTruthy(args.mr_info) THEN subject
    ELSE default

\* C22: prompt resolution follows one precedence in the three families: the custom prompt
\* if supplied, else the subject-derived template if subject metadata is supplied, else
\* the default; only the command-line and local-service adapters are executed with no
\* prompt (None), while a hosted provider call receives a non-empty prompt, which embeds
\* the extracted diff when no custom prompt was supplied.
C22_PromptPrecedence ==
    /\ last.op = "execute" =>
          last.arg.custom_prompt = C22_Resolved(BuildClaudeCliPrompt(args.mr_info), None)
    /\ (last.op = "hosted_call" /\ pc = "generic_parse") =>
          /\ last.arg.prompt = C22_Resolved(
                 BuildGenericLlmPrompt(args.mr_info, frame.code_context),
                 BuildPrompt(frame.code_context))
          /\ last.arg.prompt # None
          /\ TextLen(last.arg.prompt) > 0
          /\ ~Truthy(args.custom_prompt) => Contains(last.arg.prompt, frame.code_context)

\* a hosted client was called with the default template around the extracted diff
C22_Witness ==
    /\ pc = "generic_parse" /\ last.op = "hosted_call"
    /\ ~Truthy(args.custom_prompt) /\ ~MrTruthy(args.mr_info)
    /\ Happened("_build_prompt", "ok")
    /\ Contains(last.arg.prompt, frame.code_context)

\* the local-service adapter was executed with no prompt
C22_WitnessPromptLess ==
    /\ pc = "ollama_parse" /\ last.op = "execute"
    /\ last.arg.custom_prompt = None

\* the command-line adapter was executed with the subject-derived template
C22_WitnessSubject ==
    /\ pc = "claude_parse" /\ last.op = "execute"
    /\ Happened("_build_claude_cli_prompt", "ok")
    /\ last.arg.custom_prompt # None

\* the inference of this step threw, or found no default branch in the remote description
C23_InferenceFailed ==
    /\ pc = "infer"
    /\ \/ last'.op = "infer: rev-parse"
       \/ /\ last'.op = "infer: remote show"
          /\ \/ last'.ret.raised # NoExc
             \/ SearchHeadBranch(last'.ret.stdout) = None

\* C23: commit-range inference runs if and only if the supplied commit range is empty: a
\* supplied range is strategy 1's target unchanged and no inference query is issued; when
\* inference throws or the default branch cannot be parsed from the remote description,
\* extraction still goes on to the five strategies, strategy 1 being run without a range.
C23_InferenceOnlyWhenEmpty ==
    /\ [](pc \in {"branch", "probe", "summary"} =>
            /\ Truthy(args.commit_range) <=> "infer" \notin Ops(trace)
            /\ Truthy(args.commit_range) => frame.commit_range = args.commit_range)
    /\ []((pc \in {"probe", "summary", "generic_context"}
             /\ last.op = "probe" /\ last.arg.k = 1) =>
            /\ Truthy(args.commit_range) =>
                  last.arg.cmd = <<Word("git", 3), Word("diff", 4), args.commit_range>>
            /\ (pc = "probe" /\ ~Truthy(frame.commit_range)) =>
                  last.arg.cmd = <<Word("git", 3), Word("diff", 4)>>)
    /\ [][C23_InferenceFailed =>
             (pc' = "branch" /\ ~Truthy(frame'.commit_range) /\ outcome' = outcome)]_vars
    /\ [][pc = "branch" => (pc' = "probe" /\ frame'.strategy = 1
                              /\ frame'.commit_range = frame.commit_range)]_vars

\* inference ran and failed, and strategy 1 was run without a range
C23_Witness ==
    /\ pc = "probe" /\ frame.strategy = 2
    /\ ~Truthy(args.commit_range) /\ ~Truthy(frame.commit_range)
    /\ Happened("infer", "-")
    /\ last.op = "probe" /\ last.arg.k = 1
    /\ last.arg.cmd = <<Word("git", 3), Word("diff", 4)>>

\* a supplied range was strategy 1's target
C23_WitnessSupplied ==
    /\ pc = "probe" /\ frame.strategy = 2
    /\ Truthy(args.commit_range)
    /\ last.op = "probe" /\ last.arg.k = 1
    /\ last.arg.cmd = <<Word("git", 3), Word("diff", 4), args.commit_range>>

\* inference succeeded and its range was strategy 1's target
C23_WitnessInferred ==
    /\ pc = "probe" /\ frame.strategy = 2
    /\ ~Truthy(args.commit_range) /\ Truthy(frame.commit_range)
    /\ last.op = "probe" /\ last.arg.k = 1
    /\ last.arg.cmd = <<Word("git", 3), Word("diff", 4), frame.commit_range>>

\* how many times the call in progress, or the latest one, made collaborator call op
\* (for a probe: of strategy k)
C24_Times(op, k) == Cardinality({i \in 1..Len(trace) : trace[i].op = op /\ trace[i].k = k})

\* C24: nothing is retried within one review_code call: each of the five extraction
\* strategies is invoked at most once, in order, the adapter's validate step at most once,
\* and the adapter's execute step or the hosted provider call at most once, whatever fails.
C24_NoRetry ==
    /\ \A k \in 1..5 : C24_Times("probe", k) <= 1
    /\ \A i, j \in 1..Len(ProbeEvents) : i < j => ProbeEvents[i].k < ProbeEvents[j].k
    /\ C24_Times("validate", 0) <= 1
    /\ C24_Times("execute", 0) + C24_Times("hosted_call", 0) <= 1

\* the five strategies failed one after the other, the last one by timing out
C24_Witness ==
    /\ pc = "summary"
    /\ \A k \in 1..5 : C24_Times("probe", k) = 1
    /\ last.op = "probe" /\ last.ret.raised = TimedOut

\* the call ended on a failed execute step, after one validate step
C24_WitnessExecute ==
    /\ CallEnded /\ outcome.kind = "ErrorMessage"
    /\ C24_Times("validate", 0) = 1 /\ Happened("execute", "not_ok")

\* the call ended after a hosted provider call that raised
C24_WitnessHosted ==
    /\ CallEnded
    /\ Happened("hosted_call", "raised")

\* a review_code call is in progress
InCall == Constructed /\ pc # "Configured"

\* the latest call ended in Succeeded (a structured result) or Failed (an error message)
C25_Ended == pc = "Configured" /\ outcome.kind \in {"ParserResult", "ErrorMessage"}

\* C25: every collaborator call returning or throwing, every review_code call started on
\* a configured controller eventually ends in Succeeded or Failed, and the controller is
\* then in Configured again with no local of the call left: the next review_code call is
\* dispatched as the first one was, whatever the outcomes of the calls before it.
C25_CallsEnd ==
    /\ InCall ~> C25_Ended
    /\ [](CallEnded => (C25_Ended /\ frame = FreshFrame))
    /\ [][(CallEnded /\ pc' # "Configured") =>
             (pc' = SelectAdapter(provider) /\ frame' = FreshFrame /\ trace' = <<>>
                /\ outcome' = NoOutcome)]_vars

\* a call is in progress on a controller whose call before ended with an error message
C25_Witness ==
    /\ pc = "generic_call"
    /\ extracted.again

\* a call has ended with an error message made from an exception
C25_WitnessFailed ==
    /\ CallEnded /\ outcome.kind = "ErrorMessage"
    /\ Happened("parse", "raised")

\* the configured identifier, lower-cased, names no adapter and no hosted client
C26_Unsupported ==
    /\ Constructed
    /\ Lower(provider) \notin {"claude", "ollama", "openai", "deepseek", "gemini"}

\* C26: for a provider identifier whose lower-cased form is none of 'claude', 'ollama',
\* 'openai', 'deepseek', 'gemini' ('mock' included), a review whose diff extraction
\* succeeded contacts no provider client; the "provider not supported" message is the
\* raw response text and is handed to the parser, so the outcome of the review is what
\* the parser returns for that text.
C26_UnsupportedIsParsed ==
    /\ [](C26_Unsupported =>
            /\ ~Contacted
            /\ pc = "generic_parse" => frame.review_content = UnsupportedMessage(provider)
            /\ last.op = "parse" =>
                  /\ last.arg.result = UnsupportedMessage(provider)
                  /\ (CallEnded /\ outcome.kind = "ParserResult") =>
                        outcome.value = last.ret.value
                  /\ (CallEnded /\ last.ret.raised = NoExc /\ "score" \in DOMAIN last.ret.value)
                        => outcome.kind = "ParserResult")
    /\ [][(C26_Unsupported /\ pc = "generic_call") =>
             (pc' = "generic_parse" /\ trace' = trace /\ outcome' = outcome)]_vars
    /\ [][(C26_Unsupported /\ pc = "generic_parse") => last'.op \in {last.op, "parse"}]_vars

\* a mock review ended with the parser's result for the "not supported" text
C26_Witness ==
    /\ CallEnded /\ provider = "mock"
    /\ Happened("probe", "output")
    /\ last.op = "parse" /\ last.arg.result = UnsupportedMessage("mock")
    /\ outcome = [kind |-> "ParserResult", value |-> last.ret.value]

\* the latest collaborator call is the second status query of the summary, and both status
\* queries exited non-zero without raising and wrote nothing
C27_SummaryOfNothing ==
    /\ last.op = "summary: log"
    /\ last.arg.raised = NoExc /\ last.arg.returncode # 0 /\ last.arg.stdout = <<>>
    /\ last.ret.raised = NoExc /\ last.ret.returncode # 0 /\ last.ret.stdout = <<>>

\* C27: the exit status of the two status-summary commands is not inspected: when all five
\* strategies fail on an existing path and both summary commands exit non-zero without
\* throwing, extraction returns the summary text with empty branch and commit fields, not
\* None, and a hosted-API review goes on to prompt assembly and the provider call instead
\* of returning "no change content obtained".
C27_SummaryIgnoresExitStatus ==
    /\ []((C27_SummaryOfNothing
             /\ pc \in {"generic_context", "generic_prompt", "generic_call"}) =>
            /\ Len(ProbeEvents) = 5
            /\ frame.code_context = BasicInfo(<<>>, <<>>)
            /\ frame.code_context # None /\ TextLen(frame.code_context) > 0)
    /\ [][(C27_SummaryOfNothing /\ pc = "generic_context") =>
             (pc' = "generic_prompt" /\ outcome' = outcome)]_vars
    /\ [][(C27_SummaryOfNothing /\ pc = "generic_prompt") =>
             (pc' = "generic_call" /\ Truthy(frame'.final_prompt))]_vars
    /\ [][(C27_SummaryOfNothing /\ pc = "generic_call" /\ Lower(provider) \in HostedClients) =>
             (pc' = "generic_parse" /\ last'.op = "hosted_call")]_vars

\* a hosted client was called with a prompt built around the summary of nothing
C27_Witness ==
    /\ pc = "generic_parse"
    /\ last.op = "hosted_call"
    /\ Happened("summary", "-")
    /\ frame.code_context = BasicInfo(<<>>, <<>>)
    /\ ~Truthy(args.custom_prompt)
    /\ Contains(last.arg.prompt, BasicInfo(<<>>, <<>>))

\* the hosted-API dispatch of a call that was given no repository path
C28_Case == Constructed /\ HostedFamily /\ pc # "Configured" /\ ~Truthy(args.repo_path)

\* C28: for a hosted-API provider, a review_code call with no repository path returns the
\* "no change content obtained" message with no provider call and no parser call, whether
\* or not a custom prompt or subject metadata is supplied: extraction returns None for the
\* missing path and is consulted before the prompt is resolved.
C28_NoPathNoReview ==
    /\ [](C28_Case => pc \in {"extract", "generic_context"})
    /\ []((C28_Case /\ pc = "generic_context") => frame.code_context = None)
    /\ [][C28_Case =>
             /\ trace' = <<>> /\ last' = NoCall
             /\ frame'.final_prompt = None
             /\ pc' = "Configured" =>
                   outcome' = [kind |-> "ErrorMessage", value |-> NoContextMessage]]_vars

\* such a call, given both a custom prompt and subject metadata, has ended with the message
C28_Witness ==
    /\ CallEnded /\ HostedFamily
    /\ args.repo_path = None
    /\ Truthy(args.custom_prompt) /\ MrTruthy(args.mr_info)
    /\ outcome = [kind |-> "ErrorMessage", value |-> NoContextMessage]
    /\ trace = <<>>

====
